---- MODULE Spec2Model ----
(***************************************************************************)
(* A model of detector_full_candidate_name.py: the PII detectors, the      *)
(* redactors, detect_and_redact_pii and the row loop of main.              *)
(*                                                                         *)
(* Text is a sequence of one-character strings.  A JSON value is a record  *)
(* [t, s]: t is its type ("str", "int", "bool", "null") and s the text     *)
(* that Python's str() gives for it (for a string, the string itself).     *)
(***************************************************************************)
EXTENDS Integers, Sequences, FiniteSets, TLC

VARIABLES
    arg, fn, ret,                     \* a redactor call: argument, function, return value
    data_json, result,                \* a detect_and_redact_pii call and what it gave
    data_json2, result2,              \* a second, independent call
    rows, reader, out, processed_count, pii_found_count, pc   \* main's row loop

vars == <<arg, fn, ret, data_json, result, data_json2, result2,
          rows, reader, out, processed_count, pii_found_count, pc>>

----------------------------------------------------------------------------
(* Character classes of the regular expressions. *)

Digit == {"0", "1", "2", "3", "4", "5", "6", "7", "8", "9"}

LowerSeq == <<"a", "b", "c", "d", "e", "f", "g", "h", "i", "j", "k", "l", "m",
              "n", "o", "p", "q", "r", "s", "t", "u", "v", "w", "x", "y", "z">>

UpperSeq == <<"A", "B", "C", "D", "E", "F", "G", "H", "I", "J", "K", "L", "M",
              "N", "O", "P", "Q", "R", "S", "T", "U", "V", "W", "X", "Y", "Z">>

Lower == {LowerSeq[i] : i \in 1..26}

Upper == {UpperSeq[i] : i \in 1..26}

Alpha == Lower \cup Upper

AlphaNum == Alpha \cup Digit

\* \s, on the ASCII characters the model uses
Whitespace == {" ", "\t", "\n"}

\* \w, for the word boundary \b
WordChar == AlphaNum \cup {"_"}

\* [\s\-\(\)\+]
PhoneSeparators == Whitespace \cup {"-", "(", ")", "+"}

\* [\s\-]
AadharSeparators == Whitespace \cup {"-"}

\* [a-zA-Z0-9._-]
UpiLocalChars == AlphaNum \cup {".", "_", "-"}

\* [a-zA-Z0-9.-]
DomainChars == AlphaNum \cup {".", "-"}

\* [a-zA-Z0-9._%+-]
EmailLocalChars == AlphaNum \cup {".", "_", "%", "+", "-"}

\* [A-Za-z\.\-\']
NameChars == Alpha \cup {".", "-", "'"}

----------------------------------------------------------------------------
(* Python's string operations. *)

\* str.upper(), one character
UpperChar(c) ==
    IF c \in Lower THEN UpperSeq[CHOOSE i \in 1..26 : LowerSeq[i] = c] ELSE c

\* str.upper()
StrUpper(s) == [i \in 1..Len(s) |-> UpperChar(s[i])]

\* re.sub(class, '', s)
ReSubDelete(s, class) == SelectSeq(s, LAMBDA c : c \notin class)

\* re.sub(class, c, s), c one character
ReSubChar(s, class, r) == [i \in 1..Len(s) |-> IF s[i] \in class THEN r ELSE s[i]]

AllIn(s, class) == \A i \in 1..Len(s) : s[i] \in class

\* the '$' of re.match: the end of the text, or just before a final newline
DollarEnds(s) ==
    {s} \cup (IF Len(s) > 0 /\ s[Len(s)] = "\n" THEN {SubSeq(s, 1, Len(s) - 1)} ELSE {})

\* str.strip()
RECURSIVE LStrip(_)
LStrip(s) == IF s # <<>> /\ Head(s) \in Whitespace THEN LStrip(Tail(s)) ELSE s

RECURSIVE RStrip(_)
RStrip(s) ==
    IF s # <<>> /\ s[Len(s)] \in Whitespace THEN RStrip(SubSeq(s, 1, Len(s) - 1)) ELSE s

StrStrip(s) == RStrip(LStrip(s))

\* str.split(c) and re.split(class, s): the parts between separators, empty ones kept
RECURSIVE SplitOn(_, _, _)
SplitOn(s, class, cur) ==
    IF s = <<>> THEN <<cur>>
    ELSE IF Head(s) \in class THEN <<cur>> \o SplitOn(Tail(s), class, <<>>)
    ELSE SplitOn(Tail(s), class, Append(cur, Head(s)))

\* str.split(): the runs of non-whitespace characters
StrSplit(s) == SelectSeq(SplitOn(s, Whitespace, <<>>), LAMBDA w : w # <<>>)

\* " ".join(words)
RECURSIVE JoinSpace(_)
JoinSpace(words) ==
    IF words = <<>> THEN <<>>
    ELSE IF Len(words) = 1 THEN words[1]
    ELSE words[1] \o <<" ">> \o JoinSpace(Tail(words))

\* 'X' * n
Xs(n) == [i \in 1..n |-> "X"]

----------------------------------------------------------------------------
(* The detectors. *)

PhoneDigits == 10

AadharDigits == 12

PassportMinDigits == 7

PassportMaxDigits == 8

TldMinLetters == 2

AddressMinLen == 10

PincodeDigits == 6

AddressMinParts == 3

is_phone_number(text) ==
    LET clean_text == ReSubDelete(text, PhoneSeparators)
    IN  \E t \in DollarEnds(clean_text) : Len(t) = PhoneDigits /\ AllIn(t, Digit)

is_aadhar_number(text) ==
    LET clean_text == ReSubDelete(text, AadharSeparators)
    IN  \E t \in DollarEnds(clean_text) : Len(t) = AadharDigits /\ AllIn(t, Digit)

is_passport_number(text) ==
    \E t \in DollarEnds(StrUpper(text)) :
        /\ Len(t) \in (1 + PassportMinDigits)..(1 + PassportMaxDigits)
        /\ t[1] \in Upper
        /\ AllIn(Tail(t), Digit)

is_upi_id(text) ==
    \E t \in DollarEnds(text) :
        \E i \in 2..(Len(t) - 1) :
            /\ t[i] = "@"
            /\ AllIn(SubSeq(t, 1, i - 1), UpiLocalChars)
            /\ AllIn(SubSeq(t, i + 1, Len(t)), DomainChars)

is_full_name(text) ==
    LET parts == StrSplit(StrStrip(text))
    IN  /\ Len(parts) >= 2
        /\ \A i \in 1..Len(parts) : AllIn(parts[i], NameChars)

is_email(text) ==
    \E t \in DollarEnds(text) :
        \E i \in 2..(Len(t) - 1) :
            /\ t[i] = "@"
            /\ AllIn(SubSeq(t, 1, i - 1), EmailLocalChars)
            /\ \E j \in (i + 2)..(Len(t) - TldMinLetters) :
                   /\ t[j] = "."
                   /\ AllIn(SubSeq(t, i + 1, j - 1), DomainChars)
                   /\ AllIn(SubSeq(t, j + 1, Len(t)), Alpha)

\* re.search(r'\b\d{6}\b', text)
HasPincode(text) ==
    \E i \in 1..(Len(text) - PincodeDigits + 1) :
        /\ AllIn(SubSeq(text, i, i + PincodeDigits - 1), Digit)
        /\ (i = 1 \/ text[i - 1] \notin WordChar)
        /\ (i + PincodeDigits > Len(text) \/ text[i + PincodeDigits] \notin WordChar)

is_physical_address(text0) ==
    LET text == StrStrip(text0)
    IN  IF Len(text) < AddressMinLen THEN FALSE
        ELSE LET has_pincode == HasPincode(text)
                 components == SplitOn(text, {",", "\n"}, <<>>)
                 has_multiple_parts == Len(components) >= AddressMinParts
             IN  has_pincode /\ has_multiple_parts

----------------------------------------------------------------------------
(* The redactors. *)

REDACTED_PHONE ==
    <<"[", "R", "E", "D", "A", "C", "T", "E", "D", "_", "P", "H", "O", "N", "E", "]">>

REDACTED_AADHAR ==
    <<"[", "R", "E", "D", "A", "C", "T", "E", "D", "_", "A", "A", "D", "H", "A", "R", "]">>

REDACTED_PASSPORT ==
    <<"[", "R", "E", "D", "A", "C", "T", "E", "D", "_",
      "P", "A", "S", "S", "P", "O", "R", "T", "]">>

REDACTED_UPI ==
    <<"[", "R", "E", "D", "A", "C", "T", "E", "D", "_", "U", "P", "I", "]">>

REDACTED_EMAIL ==
    <<"[", "R", "E", "D", "A", "C", "T", "E", "D", "_", "E", "M", "A", "I", "L", "]">>

REDACTED_ID ==
    <<"[", "R", "E", "D", "A", "C", "T", "E", "D", "_", "I", "D", "]">>

\* s[:n]
Prefix(s, n) == SubSeq(s, 1, IF n < Len(s) THEN n ELSE Len(s))

\* s[-n:]
Suffix(s, n) == SubSeq(s, IF n < Len(s) THEN Len(s) - n + 1 ELSE 1, Len(s))

KeepFirst == 2

KeepLast == 2

PhoneMask == 6

AadharMask == 8

PassportMask == 7

LocalKeep == 2

LocalMask == 3

\* redact_phone as its docstring words it: the last 4 digits kept
redact_phone_keep_last4(phone) ==
    LET clean_phone == ReSubDelete(phone, PhoneSeparators)
    IN  IF Len(clean_phone) = PhoneDigits
        THEN Prefix(clean_phone, KeepFirst) \o Xs(PhoneMask) \o Suffix(clean_phone, 4)
        ELSE REDACTED_PHONE

\* redact_phone without its length test
redact_phone_unchecked_length(phone) ==
    LET clean_phone == ReSubDelete(phone, PhoneSeparators)
    IN  Prefix(clean_phone, KeepFirst) \o Xs(PhoneMask)
            \o Suffix(clean_phone, KeepLast)

redact_phone(phone) ==
    LET clean_phone == ReSubDelete(phone, PhoneSeparators)
    IN  IF Len(clean_phone) = PhoneDigits
        THEN Prefix(clean_phone, KeepFirst) \o Xs(PhoneMask)
                 \o Suffix(clean_phone, KeepLast)
        ELSE REDACTED_PHONE

redact_aadhar(aadhar) ==
    LET clean_aadhar == ReSubDelete(aadhar, AadharSeparators)
    IN  IF Len(clean_aadhar) = AadharDigits
        THEN Prefix(clean_aadhar, KeepFirst) \o Xs(AadharMask)
                 \o Suffix(clean_aadhar, KeepLast)
        ELSE REDACTED_AADHAR

redact_passport(passport) ==
    IF Len(passport) > 1 THEN <<passport[1]>> \o Xs(PassportMask) ELSE REDACTED_PASSPORT

redact_upi(upi) ==
    LET parts == SplitOn(upi, {"@"}, <<>>)
    IN  IF Len(parts) = 2
        THEN LET username == parts[1]
                 domain == parts[2]
             IN  IF Len(username) > LocalKeep
                 THEN Prefix(username, LocalKeep) \o Xs(LocalMask) \o <<"@">> \o domain
                 ELSE Xs(LocalMask) \o <<"@">> \o domain
        ELSE REDACTED_UPI

redact_name(name) ==
    LET parts == StrSplit(StrStrip(name))
        redacted_parts ==
            [i \in 1..Len(parts) |->
                IF Len(parts[i]) > 1
                THEN <<parts[i][1]>> \o Xs(Len(parts[i]) - 1)
                ELSE <<"X">>]
    IN  JoinSpace(redacted_parts)

\* redact_email with a short local part kept before the mask
redact_email_short_local_kept(email) ==
    LET parts == SplitOn(email, {"@"}, <<>>)
    IN  IF Len(parts) = 2
        THEN Prefix(parts[1], LocalKeep) \o Xs(LocalMask) \o <<"@">> \o parts[2]
        ELSE REDACTED_EMAIL

redact_email(email) ==
    LET parts == SplitOn(email, {"@"}, <<>>)
    IN  IF Len(parts) = 2
        THEN LET username == parts[1]
                 domain == parts[2]
             IN  IF Len(username) > LocalKeep
                 THEN Prefix(username, LocalKeep) \o Xs(LocalMask) \o <<"@">> \o domain
                 ELSE Xs(LocalMask) \o <<"@">> \o domain
        ELSE REDACTED_EMAIL

ExemptWords ==
    { <<"R", "O", "A", "D">>, <<"S", "T", "R", "E", "E", "T">>,
      <<"C", "I", "T", "Y">>, <<"S", "T", "A", "T", "E">> }

AddressWordMin == 3

AddressWordKeep == 2

redact_address(address) ==
    LET redacted == ReSubChar(address, Digit, "X")
        words == StrSplit(redacted)
        final_words ==
            [i \in 1..Len(words) |->
                IF Len(words[i]) > AddressWordMin /\ StrUpper(words[i]) \notin ExemptWords
                THEN Prefix(words[i], AddressWordKeep) \o Xs(Len(words[i]) - AddressWordKeep)
                ELSE words[i]]
    IN  JoinSpace(final_words)

----------------------------------------------------------------------------
(* JSON values and json.dumps. *)

StrVal(s) == [t |-> "str", s |-> s]

\* an integer, held as the decimal text str() gives for it
IntVal(s) == [t |-> "int", s |-> s]

BoolVal(b) == [t |-> "bool", s |-> IF b THEN <<"T", "r", "u", "e">>
                                      ELSE <<"F", "a", "l", "s", "e">>]

NullVal == [t |-> "null", s |-> <<"N", "o", "n", "e">>]

\* str(value)
PyStr(value) == value.s

KeyText(key) ==
    CASE key = "phone" -> <<"p", "h", "o", "n", "e">>
      [] key = "contact" -> <<"c", "o", "n", "t", "a", "c", "t">>
      [] key = "aadhar" -> <<"a", "a", "d", "h", "a", "r">>
      [] key = "passport" -> <<"p", "a", "s", "s", "p", "o", "r", "t">>
      [] key = "upi_id" -> <<"u", "p", "i", "_", "i", "d">>
      [] key = "name" -> <<"n", "a", "m", "e">>
      [] key = "email" -> <<"e", "m", "a", "i", "l">>
      [] key = "address" -> <<"a", "d", "d", "r", "e", "s", "s">>
      [] key = "device_id" -> <<"d", "e", "v", "i", "c", "e", "_", "i", "d">>
      [] key = "ip_address" -> <<"i", "p", "_", "a", "d", "d", "r", "e", "s", "s">>
      [] key = "city" -> <<"c", "i", "t", "y">>

\* json.dumps of a string: quoted, with '"', '\', newline and tab escaped
RECURSIVE JsonEscape(_)
JsonEscape(s) ==
    IF s = <<>> THEN <<>>
    ELSE (CASE Head(s) = "\"" -> <<"\\", "\"">>
            [] Head(s) = "\\" -> <<"\\", "\\">>
            [] Head(s) = "\n" -> <<"\\", "n">>
            [] Head(s) = "\t" -> <<"\\", "t">>
            [] OTHER -> <<Head(s)>>) \o JsonEscape(Tail(s))

JsonDumpsString(s) == <<"\"">> \o JsonEscape(s) \o <<"\"">>

JsonDumpsValue(value) ==
    CASE value.t = "str" -> JsonDumpsString(value.s)
      [] value.t = "int" -> value.s
      [] value.t = "bool" -> (IF value = BoolVal(TRUE) THEN <<"t", "r", "u", "e">>
                              ELSE <<"f", "a", "l", "s", "e">>)
      [] value.t = "null" -> <<"n", "u", "l", "l">>

RECURSIVE JsonDumpsItems(_)
JsonDumpsItems(fields) ==
    IF fields = <<>> THEN <<>>
    ELSE JsonDumpsString(KeyText(fields[1].key)) \o <<":", " ">>
             \o JsonDumpsValue(fields[1].value)
             \o (IF Len(fields) > 1 THEN <<",", " ">> ELSE <<>>)
             \o JsonDumpsItems(Tail(fields))

\* json.dumps of a dict
JsonDumps(fields) == <<"{">> \o JsonDumpsItems(fields) \o <<"}">>

\* json_str.replace('"', '""')
RECURSIVE DoubleQuotes(_)
DoubleQuotes(s) ==
    IF s = <<>> THEN <<>>
    ELSE (IF Head(s) = "\"" THEN <<"\"", "\"">> ELSE <<Head(s)>>) \o DoubleQuotes(Tail(s))

----------------------------------------------------------------------------
(* detect_and_redact_pii.  A payload is the text of the data column with   *)
(* what json.loads makes of it: kind "malformed" (json.loads raises),      *)
(* "object" (a dict, its items in `fields`, in order, keys distinct), or   *)
(* "array"/"scalar" (any other JSON value).                                *)

\* json.loads: whether it returns, and what
JsonLoads(payload) ==
    [ok |-> payload.kind # "malformed", kind |-> payload.kind, fields |-> payload.fields]

PhoneKeys == {"phone", "contact"}

IdentifierKeys == {"device_id", "ip_address"}

\* the skip test without the empty string
IsSkipped_null_only(value) == value = NullVal

\* value is None or value == ""
IsSkipped(value) == value = NullVal \/ value = StrVal(<<>>)

\* one pass of the loop body, for item i of data
LoopBody(st, data, i) ==
    LET key == data[i].key
        value == data[i].value
        value_str == PyStr(value)
    IN  IF IsSkipped(value) THEN st
        ELSE IF key \in PhoneKeys /\ is_phone_number(value_str)
        THEN [st EXCEPT !.redacted_data[i].value = StrVal(redact_phone(value_str)),
                        !.is_pii = TRUE]
        ELSE IF key = "aadhar" /\ is_aadhar_number(value_str)
        THEN [st EXCEPT !.redacted_data[i].value = StrVal(redact_aadhar(value_str)),
                        !.is_pii = TRUE]
        ELSE IF key = "passport" /\ is_passport_number(value_str)
        THEN [st EXCEPT !.redacted_data[i].value = StrVal(redact_passport(value_str)),
                        !.is_pii = TRUE]
        ELSE IF key = "upi_id" /\ is_upi_id(value_str)
        THEN [st EXCEPT !.redacted_data[i].value = StrVal(redact_upi(value_str)),
                        !.is_pii = TRUE]
        ELSE IF key = "name" /\ is_full_name(value_str)
        THEN [st EXCEPT !.combinatorial_pii = Append(@, "name"),
                        !.redacted_data[i].value = StrVal(redact_name(value_str))]
        ELSE IF key = "email" /\ is_email(value_str)
        THEN [st EXCEPT !.combinatorial_pii = Append(@, "email"),
                        !.redacted_data[i].value = StrVal(redact_email(value_str))]
        ELSE IF key = "address" /\ is_physical_address(value_str)
        THEN [st EXCEPT !.combinatorial_pii = Append(@, "address"),
                        !.redacted_data[i].value = StrVal(redact_address(value_str))]
        ELSE IF key \in IdentifierKeys
        THEN [st EXCEPT !.combinatorial_pii = Append(@, key),
                        !.redacted_data[i].value = StrVal(REDACTED_ID)]
        ELSE st

\* for key, value in data.items()
RECURSIVE Loop(_, _, _)
Loop(st, data, i) ==
    IF i > Len(data) THEN st ELSE Loop(LoopBody(st, data, i), data, i + 1)

CombinatorialMin == 2

\* the verdict with one combinatorial element taken as enough
Verdict_one_element(st) == st.is_pii \/ Len(st.combinatorial_pii) >= 1

\* the verdict after the loop
Verdict(st) == st.is_pii \/ Len(st.combinatorial_pii) >= CombinatorialMin

\* what a call gives: a raised exception, or the pair (text, is_pii); the
\* locals redacted_data and combinatorial_pii are kept beside it
Raised ==
    [raised |-> TRUE, text |-> <<>>, is_pii |-> FALSE,
     redacted_data |-> <<>>, combinatorial_pii |-> <<>>]

\* detect_and_redact_pii serialising the redacted copy only for a PII record
detect_and_redact_pii_redacts_if_pii(payload) ==
    LET loaded == JsonLoads(payload)
    IN  IF ~loaded.ok
        THEN [raised |-> FALSE, text |-> <<"\"">> \o payload.text \o <<"\"">>,
              is_pii |-> FALSE, redacted_data |-> <<>>, combinatorial_pii |-> <<>>]
        ELSE IF loaded.kind # "object" THEN Raised
        ELSE LET data == loaded.fields
                 st == Loop([is_pii |-> FALSE, redacted_data |-> data,
                             combinatorial_pii |-> <<>>], data, 1)
                 is_pii == Verdict(st)
                 kept == IF is_pii THEN st.redacted_data ELSE data
             IN  [raised |-> FALSE,
                  text |-> <<"\"">> \o DoubleQuotes(JsonDumps(kept)) \o <<"\"">>,
                  is_pii |-> is_pii, redacted_data |-> kept,
                  combinatorial_pii |-> st.combinatorial_pii]

detect_and_redact_pii(payload) ==
    LET loaded == JsonLoads(payload)
    IN  IF ~loaded.ok
        THEN [raised |-> FALSE, text |-> <<"\"">> \o payload.text \o <<"\"">>,
              is_pii |-> FALSE, redacted_data |-> <<>>, combinatorial_pii |-> <<>>]
        ELSE IF loaded.kind # "object" THEN Raised
        ELSE LET data == loaded.fields
                 st == Loop([is_pii |-> FALSE, redacted_data |-> data,
                             combinatorial_pii |-> <<>>], data, 1)
                 is_pii == Verdict(st)
                 json_str == JsonDumps(st.redacted_data)
                 escaped_json == DoubleQuotes(json_str)
             IN  [raised |-> FALSE, text |-> <<"\"">> \o escaped_json \o <<"\"">>,
                  is_pii |-> is_pii, redacted_data |-> st.redacted_data,
                  combinatorial_pii |-> st.combinatorial_pii]

----------------------------------------------------------------------------
(* Inputs of the redactor calls. *)

MaxSeparators == 2

MaxAtLen == 5

DigitSample == {"1", "9"}

SepSample == {"-", " ", "("}

AtAlphabet == {"a", "b", "@", "."}

\* digit strings of n digits: the first and the last digit vary
DigitStrings(n) ==
    { <<a, b>> \o [i \in 1..(n - 4) |-> "5"] \o <<c, d>> :
        a \in DigitSample, b \in {"2"}, c \in {"3"}, d \in DigitSample }

\* s with the separators of g put in: g[p] goes after the first p characters
RECURSIVE Interleave(_, _, _)
Interleave(s, g, i) ==
    IF i > Len(s) THEN <<>>
    ELSE <<s[i]>> \o (IF i \in DOMAIN g THEN <<g[i]>> ELSE <<>>) \o Interleave(s, g, i + 1)

\* s with up to k separators put in, at any k places
WithSeparators(s, k) ==
    { (IF 0 \in DOMAIN g THEN <<g[0]>> ELSE <<>>) \o Interleave(s, g, 1) :
        g \in UNION { [P -> SepSample] :
                        P \in { Q \in SUBSET (0..Len(s)) : Cardinality(Q) <= k } } }

PhoneInputs ==
    UNION { WithSeparators(b, MaxSeparators) :
              b \in DigitStrings(PhoneDigits) \cup DigitStrings(PhoneDigits - 1)
                      \cup DigitStrings(PhoneDigits + 1) }

AadharInputs ==
    UNION { WithSeparators(b, MaxSeparators) :
              b \in DigitStrings(AadharDigits) \cup DigitStrings(AadharDigits + 1) }

AtInputs == UNION { [1..n -> AtAlphabet] : n \in 0..MaxAtLen }

Placeholders ==
    {REDACTED_PHONE, REDACTED_AADHAR, REDACTED_PASSPORT, REDACTED_UPI, REDACTED_EMAIL}

OtherInputs ==
    { <<"P", "1", "2", "3", "4", "5", "6", "7">>,
      <<"j", "a", "n", "e", ".", "d", "o", "e", "@",
        "e", "x", "a", "m", "p", "l", "e", ".", "c", "o", "m">>,
      <<"P">>,
      <<"J", "a", "n", "e", " ", "D", "o", "e">>,
      <<" ", "A", " ", " ", "B", "o", "\n">>,
      <<"1", "2", " ", "M", "G", " ", "R", "o", "a", "d", ",", " ",
        "P", "u", "n", "e", ",", " ", "4", "1", "1", "0", "0", "1">> }

RedactInputs == PhoneInputs \cup AadharInputs \cup AtInputs \cup Placeholders \cup OtherInputs

----------------------------------------------------------------------------
(* The redactors, called on their own. *)

NoPayload == [kind |-> "none", text |-> <<>>, fields |-> <<>>]

NoResult ==
    [raised |-> FALSE, text |-> <<>>, is_pii |-> FALSE,
     redacted_data |-> <<>>, combinatorial_pii |-> <<>>]

IdleRedact == arg = <<>> /\ fn = "none" /\ ret = <<>>

IdleRecord ==
    /\ data_json = NoPayload /\ result = NoResult
    /\ data_json2 = NoPayload /\ result2 = NoResult

IdleMain ==
    /\ rows = <<>> /\ reader = 0 /\ out = <<>>
    /\ processed_count = 0 /\ pii_found_count = 0
    /\ pc = "redact"

InitRedact ==
    /\ arg \in RedactInputs
    /\ fn = "none"
    /\ ret = <<>>
    /\ IdleRecord
    /\ IdleMain

Returns(f, value) ==
    /\ fn = "none"
    /\ fn' = f
    /\ ret' = value
    /\ UNCHANGED <<arg, data_json, result, data_json2, result2,
                   rows, reader, out, processed_count, pii_found_count, pc>>

CallRedactPhone == Returns("redact_phone", redact_phone(arg))

CallRedactAadhar == Returns("redact_aadhar", redact_aadhar(arg))

CallRedactPassport == Returns("redact_passport", redact_passport(arg))

CallRedactUpi == Returns("redact_upi", redact_upi(arg))

CallRedactName == Returns("redact_name", redact_name(arg))

CallRedactEmail == Returns("redact_email", redact_email(arg))

CallRedactAddress == Returns("redact_address", redact_address(arg))

NextRedact ==
    \/ CallRedactPhone
    \/ CallRedactAadhar
    \/ CallRedactPassport
    \/ CallRedactUpi
    \/ CallRedactName
    \/ CallRedactEmail
    \/ CallRedactAddress

SpecRedact == InitRedact /\ [][NextRedact]_vars

----------------------------------------------------------------------------
(* Payloads. *)

MaxFields == 2

Field(key, value) == [key |-> key, value |-> value]

ValidPhone == <<"9", "8", "7", "-", "6", "5", "4", "-", "3", "2", "1", "0">>

ValidAadhar == <<"1", "2", "3", "4", " ", "5", "6", "7", "8", " ", "9", "0", "1", "2">>

ValidPassport == <<"p", "1", "2", "3", "4", "5", "6", "7", "8">>

ValidUpi == <<"u", "s", "e", "r", "@", "u", "p", "i">>

ValidName == <<"J", "a", "n", "e", " ", "D", "o", "e">>

ValidEmail ==
    <<"j", "a", "n", "e", ".", "d", "o", "e", "@",
      "e", "x", "a", "m", "p", "l", "e", ".", "c", "o", "m">>

ValidAddress ==
    <<"1", "2", " ", "M", "G", " ", "R", "o", "a", "d", ",", " ",
      "P", "u", "n", "e", ",", " ", "4", "1", "1", "0", "0", "1">>

FieldSamples ==
    { Field("phone", StrVal(ValidPhone)),
      Field("phone", StrVal(<<"1", "2", "3", "4", "5">>)),
      Field("phone", IntVal(<<"9", "8", "7", "6", "5", "4", "3", "2", "1", "0">>)),
      Field("phone", StrVal(<<>>)),
      Field("contact", StrVal(<<"9", "8", "7", "6", "5", "4", "3", "2", "1", "0">>)),
      Field("contact", NullVal),
      Field("aadhar", StrVal(ValidAadhar)),
      Field("aadhar", StrVal(REDACTED_AADHAR)),
      Field("passport", StrVal(ValidPassport)),
      Field("passport", StrVal(<<"A", "B", "1", "2", "3">>)),
      Field("upi_id", StrVal(ValidUpi)),
      Field("upi_id", StrVal(<<"u", "s", "e", "r">>)),
      Field("name", StrVal(ValidName)),
      Field("name", StrVal(<<"J", "a", "n", "e">>)),
      Field("name", BoolVal(TRUE)),
      Field("email", StrVal(ValidEmail)),
      Field("email", StrVal(<<"j", "a", "n", "e", "@", "e", "x", "a", "m", "p", "l", "e">>)),
      Field("address", StrVal(ValidAddress)),
      Field("address", StrVal(<<"M", "G", " ", "R", "o", "a", "d", " ", "P", "u", "n", "e">>)),
      Field("device_id", StrVal(<<"d", "e", "v", "1">>)),
      Field("device_id", StrVal(<<>>)),
      Field("ip_address", StrVal(<<"1", ".", "2", ".", "3", ".", "4">>)),
      Field("ip_address", NullVal),
      Field("city", StrVal(<<"P", "u", "n", "e">>)) }

DistinctKeys(fields) ==
    \A i, j \in 1..Len(fields) : i # j => fields[i].key # fields[j].key

\* the items of a dict: up to n fields, their keys distinct
FieldLists(samples, n) ==
    { fs \in UNION { [1..k -> samples] : k \in 0..n } : DistinctKeys(fs) }

Object(fields) == [kind |-> "object", text |-> <<>>, fields |-> fields]

Malformed(text) == [kind |-> "malformed", text |-> text, fields |-> <<>>]

NonObject(kind, text) == [kind |-> kind, text |-> text, fields |-> <<>>]

\* texts json.loads raises on
MalformedPayloads ==
    { Malformed(<<"{", "\"", "a", "\"", ":">>),
      Malformed(<<"n", "o", "t", " ", "j", "s", "o", "n">>),
      Malformed(<<>>) }

\* texts json.loads returns a list, a number, a string, None or a bool for
NonObjectPayloads ==
    { NonObject("array", <<"[", "1", "]">>),
      NonObject("scalar", <<"7">>),
      NonObject("scalar", <<"\"", "x", "\"">>),
      NonObject("scalar", <<"n", "u", "l", "l">>),
      NonObject("scalar", <<"t", "r", "u", "e">>) }

ObjectPayloads == { Object(fs) : fs \in FieldLists(FieldSamples, MaxFields) }

Payloads == ObjectPayloads \cup MalformedPayloads \cup NonObjectPayloads

----------------------------------------------------------------------------
(* One call of detect_and_redact_pii. *)

InitRecord ==
    /\ data_json \in Payloads
    /\ result = NoResult
    /\ data_json2 = NoPayload
    /\ result2 = NoResult
    /\ pc = "call"
    /\ IdleRedact
    /\ rows = <<>> /\ reader = 0 /\ out = <<>>
    /\ processed_count = 0 /\ pii_found_count = 0

Detect ==
    /\ pc = "call"
    /\ result' = detect_and_redact_pii(data_json)
    /\ pc' = "returned"
    /\ UNCHANGED <<arg, fn, ret, data_json, data_json2, result2,
                   rows, reader, out, processed_count, pii_found_count>>

NextRecord == Detect

SpecRecord == InitRecord /\ [][NextRecord]_vars

----------------------------------------------------------------------------
(* Two calls on two payloads that share one field. *)

MaxContext == 1

ContextSamples ==
    { Field("name", StrVal(ValidName)),
      Field("email", StrVal(ValidEmail)),
      Field("device_id", StrVal(<<"d", "e", "v", "1">>)),
      Field("city", StrVal(<<"P", "u", "n", "e">>)) }

\* the field lists that hold field f among up to MaxContext other fields
WithContext(f) ==
    UNION { { SubSeq(c, 1, p) \o <<f>> \o SubSeq(c, p + 1, Len(c)) : p \in 0..Len(c) } :
              c \in { cs \in FieldLists(ContextSamples, MaxContext) :
                        \A i \in 1..Len(cs) : cs[i].key # f.key } }

InitPair ==
    /\ \E f \in FieldSamples :
           /\ data_json \in { Object(fs) : fs \in WithContext(f) }
           /\ data_json2 \in { Object(fs) : fs \in WithContext(f) }
    /\ result = NoResult
    /\ result2 = NoResult
    /\ pc = "first"
    /\ IdleRedact
    /\ rows = <<>> /\ reader = 0 /\ out = <<>>
    /\ processed_count = 0 /\ pii_found_count = 0

DetectFirst ==
    /\ pc = "first"
    /\ result' = detect_and_redact_pii(data_json)
    /\ pc' = "second"
    /\ UNCHANGED <<arg, fn, ret, data_json, data_json2, result2,
                   rows, reader, out, processed_count, pii_found_count>>

DetectSecond ==
    /\ pc = "second"
    /\ result2' = detect_and_redact_pii(data_json2)
    /\ pc' = "returned"
    /\ UNCHANGED <<arg, fn, ret, data_json, data_json2, result,
                   rows, reader, out, processed_count, pii_found_count>>

NextPair == DetectFirst \/ DetectSecond

SpecPair == InitPair /\ [][NextPair]_vars

----------------------------------------------------------------------------
(* main, from the row loop on: the id and data columns are found, the      *)
(* header is written.  rows are the rows the reader will give, reader how  *)
(* many it has given, out the rows handed to writer.writerow.              *)

MaxRows == 3

RecordIds == {"r1", "r2"}

RowPayloads ==
    { Object(<<Field("name", StrVal(ValidName)), Field("email", StrVal(ValidEmail))>>),
      Object(<<Field("city", StrVal(<<"P", "u", "n", "e">>))>>),
      Malformed(<<"{", "\"", "a", "\"", ":">>),
      NonObject("array", <<"[", "1", "]">>),
      NonObject("scalar", <<"n", "u", "l", "l">>) }

RowSamples == [record_id : RecordIds, data_json : RowPayloads]

Init ==
    /\ rows \in UNION { [1..n -> RowSamples] : n \in 0..MaxRows }
    /\ reader = 0
    /\ out = <<>>
    /\ processed_count = 0
    /\ pii_found_count = 0
    /\ pc = "loop"
    /\ IdleRedact
    /\ IdleRecord

\* one pass of "for row in reader" in which detect_and_redact_pii returns
ProcessRow ==
    /\ pc = "loop"
    /\ reader < Len(rows)
    /\ LET row == rows[reader + 1]
           r == detect_and_redact_pii(row.data_json)
       IN  /\ ~r.raised
           /\ out' = Append(out, [record_id |-> row.record_id,
                                  redacted_data_json |-> r.text,
                                  is_pii |-> r.is_pii])
           /\ processed_count' = processed_count + 1
           /\ pii_found_count' = IF r.is_pii THEN pii_found_count + 1 ELSE pii_found_count
    /\ reader' = reader + 1
    /\ UNCHANGED <<arg, fn, ret, data_json, result, data_json2, result2, rows, pc>>

\* a pass in which it raises: "except Exception" prints and calls sys.exit(1)
ProcessRowRaises ==
    /\ pc = "loop"
    /\ reader < Len(rows)
    /\ detect_and_redact_pii(rows[reader + 1].data_json).raised
    /\ reader' = reader + 1
    /\ pc' = "exit"
    /\ UNCHANGED <<arg, fn, ret, data_json, result, data_json2, result2,
                   rows, out, processed_count, pii_found_count>>

\* the reader is exhausted: the summary is printed
Finish ==
    /\ pc = "loop"
    /\ reader = Len(rows)
    /\ pc' = "done"
    /\ UNCHANGED <<arg, fn, ret, data_json, result, data_json2, result2,
                   rows, reader, out, processed_count, pii_found_count>>

Next == ProcessRow \/ ProcessRowRaises \/ Finish

Spec == Init /\ [][Next]_vars

----------------------------------------------------------------------------
(* Properties of a detect_and_redact_pii call (SpecRecord). *)

Returned == pc = "returned"

IsObject == data_json.kind = "object"

StandaloneKeys == {"phone", "contact", "aadhar", "passport", "upi_id"}

ShapeKeys == {"name", "email", "address"}

RuleKeys == StandaloneKeys \cup ShapeKeys \cup IdentifierKeys

\* neither null nor the empty string
NonEmpty(value) == value.t # "null" /\ ~(value.t = "str" /\ Len(value.s) = 0)

\* the detector of the key accepts the value, stringified
Accepted(key, value) ==
    CASE key \in {"phone", "contact"} -> is_phone_number(PyStr(value))
      [] key = "aadhar" -> is_aadhar_number(PyStr(value))
      [] key = "passport" -> is_passport_number(PyStr(value))
      [] key = "upi_id" -> is_upi_id(PyStr(value))
      [] key = "name" -> is_full_name(PyStr(value))
      [] key = "email" -> is_email(PyStr(value))
      [] key = "address" -> is_physical_address(PyStr(value))
      [] OTHER -> FALSE

StandaloneHit(fs) ==
    \E i \in 1..Len(fs) :
        fs[i].key \in StandaloneKeys /\ NonEmpty(fs[i].value) /\ Accepted(fs[i].key, fs[i].value)

\* the combinatorial categories that fire: name, email, address with an accepted
\* value, device_id and ip_address with any value that is not skipped
FiredCategories(fs) ==
    { fs[i].key : i \in { j \in 1..Len(fs) :
        /\ NonEmpty(fs[j].value)
        /\ \/ fs[j].key \in ShapeKeys /\ Accepted(fs[j].key, fs[j].value)
           \/ fs[j].key \in IdentifierKeys } }

C2_IdentifiersNeedCompany ==
    (Returned /\ IsObject
       /\ \A i \in 1..Len(data_json.fields) : data_json.fields[i].key \notin ShapeKeys) =>
        /\ \A i \in 1..Len(data_json.fields) :
               data_json.fields[i].key \in IdentifierKeys =>
                   result.redacted_data[i].value = data_json.fields[i].value
        /\ \A i \in 1..Len(result.combinatorial_pii) :
               result.combinatorial_pii[i] \notin IdentifierKeys
        /\ ~StandaloneHit(data_json.fields) => ~result.is_pii

\* C3: for a payload text that fails to parse the verdict is false and the
\* output text is the input wrapped in double quotes with every embedded
\* double quote doubled, as for a parsed payload.
C3_MalformedEscaped ==
    (Returned /\ data_json.kind = "malformed") =>
        /\ ~result.raised
        /\ ~result.is_pii
        /\ result.text = <<"\"">> \o DoubleQuotes(data_json.text) \o <<"\"">>

\* C4: detect_and_redact_pii never raises: for every payload text it returns
\* a (redacted-text, verdict) pair.
C4_NeverRaises == Returned => ~result.raised

\* C5: the redacted payload has the keys of the input payload in the same
\* order, and a field keeps its value when the value is null or empty, when
\* its key is no rule key, or when its key is a standalone key or name, email,
\* address and the detector rejects the value; a payload with no rule key
\* comes back unchanged with verdict false.
C5_Frame ==
    (Returned /\ IsObject) =>
        LET fs == data_json.fields
            rd == result.redacted_data
        IN  /\ Len(rd) = Len(fs)
            /\ \A i \in 1..Len(fs) :
                   /\ rd[i].key = fs[i].key
                   /\ (\/ ~NonEmpty(fs[i].value)
                       \/ fs[i].key \notin RuleKeys
                       \/ /\ fs[i].key \in StandaloneKeys \cup ShapeKeys
                          /\ ~Accepted(fs[i].key, fs[i].value))
                      => rd[i].value = fs[i].value
            /\ (\A i \in 1..Len(fs) : fs[i].key \notin RuleKeys) =>
                   (rd = fs /\ ~result.is_pii)

C5_Witness ==
    /\ Returned
    /\ IsObject
    /\ Len(data_json.fields) = 2
    /\ data_json.fields[1] = Field("device_id", StrVal(<<>>))
    /\ data_json.fields[2] = Field("name", StrVal(ValidName))
    /\ result.redacted_data[1] = data_json.fields[1]
    /\ result.redacted_data[2].key = "name"
    /\ result.redacted_data[2].value # data_json.fields[2].value

----------------------------------------------------------------------------
(* Properties of two calls (SpecPair). *)

\* C9: when two parsed payloads hold the same value under the same key, one
\* of phone, contact, aadhar, passport, upi_id, name, email, address, the
\* redacted value of that key is the same in both outputs, whatever the other
\* fields are.
C9_FieldLocal ==
    (pc = "returned") =>
        \A i \in 1..Len(data_json.fields), j \in 1..Len(data_json2.fields) :
            (/\ data_json.fields[i] = data_json2.fields[j]
             /\ data_json.fields[i].key \in StandaloneKeys \cup ShapeKeys)
            => result.redacted_data[i].value = result2.redacted_data[j].value

C9_Witness ==
    /\ pc = "returned"
    /\ data_json.fields = <<Field("name", StrVal(ValidName))>>
    /\ data_json2.fields = <<Field("email", StrVal(ValidEmail)),
                             Field("name", StrVal(ValidName))>>
    /\ ~result.is_pii
    /\ result2.is_pii
    /\ result.redacted_data[1].value = result2.redacted_data[2].value
    /\ result.redacted_data[1].value # StrVal(ValidName)

----------------------------------------------------------------------------
(* Properties of the redactors (SpecRedact). *)

DigitsOf(s) == SelectSeq(s, LAMBDA c : c \in Digit)

AtCount(s) == Len(SelectSeq(s, LAMBDA c : c = "@"))

\* C7: for a value with exactly one '@', redact_email and redact_upi return
\* the first 2 characters of the local part and 'XXX' when the local part is
\* longer than 2 characters, 'XXX' alone when it is not, then '@' and the
\* domain unchanged; with any other number of '@' they return the placeholder.
C7_LocalPartMask ==
    (fn \in {"redact_email", "redact_upi"}) =>
        IF AtCount(arg) = 1
        THEN LET at == CHOOSE i \in 1..Len(arg) : arg[i] = "@"
                 local == SubSeq(arg, 1, at - 1)
                 domain == SubSeq(arg, at + 1, Len(arg))
             IN  ret = (IF Len(local) > 2 THEN <<local[1], local[2]>> ELSE <<>>)
                           \o <<"X", "X", "X", "@">> \o domain
        ELSE ret = (IF fn = "redact_email" THEN REDACTED_EMAIL ELSE REDACTED_UPI)

C7_Witness ==
    /\ fn = "redact_email"
    /\ arg = ValidEmail
    /\ ret = <<"j", "a", "X", "X", "X", "@",
               "e", "x", "a", "m", "p", "l", "e", ".", "c", "o", "m">>

\* C8 as stated: each of redact_phone, redact_aadhar, redact_passport,
\* redact_upi, redact_email returns its own placeholder when applied to it.
C8_PlaceholderFixedPoint ==
    /\ (fn = "redact_phone" /\ arg = REDACTED_PHONE) => ret = REDACTED_PHONE
    /\ (fn = "redact_aadhar" /\ arg = REDACTED_AADHAR) => ret = REDACTED_AADHAR
    /\ (fn = "redact_passport" /\ arg = REDACTED_PASSPORT) => ret = REDACTED_PASSPORT
    /\ (fn = "redact_upi" /\ arg = REDACTED_UPI) => ret = REDACTED_UPI
    /\ (fn = "redact_email" /\ arg = REDACTED_EMAIL) => ret = REDACTED_EMAIL

\* C8, amended: redact_phone, redact_aadhar, redact_upi and redact_email
\* return their own placeholder when applied to it; redact_passport applied
\* to '[REDACTED_PASSPORT]' returns '[XXXXXXX'.
C8_PlaceholderFixedPointButPassport ==
    /\ (fn = "redact_phone" /\ arg = REDACTED_PHONE) => ret = REDACTED_PHONE
    /\ (fn = "redact_aadhar" /\ arg = REDACTED_AADHAR) => ret = REDACTED_AADHAR
    /\ (fn = "redact_upi" /\ arg = REDACTED_UPI) => ret = REDACTED_UPI
    /\ (fn = "redact_email" /\ arg = REDACTED_EMAIL) => ret = REDACTED_EMAIL
    /\ (fn = "redact_passport" /\ arg = REDACTED_PASSPORT)
           => ret = <<"[", "X", "X", "X", "X", "X", "X", "X">>

C8_Witness ==
    /\ fn = "redact_phone"
    /\ arg = REDACTED_PHONE
    /\ ret = REDACTED_PHONE

----------------------------------------------------------------------------
(* Properties of main's row loop (Spec). *)

\* C10: main emits one output row per input row, in input order, each with
\* the row's record identifier and the text and verdict computed for that
\* row; no row stops the rows after it, so at the end processed_count is the
\* number of input rows and pii_found_count the number of rows with verdict
\* true.
C10_EveryRowEmitted ==
    (pc \in {"done", "exit"}) =>
        /\ Len(out) = Len(rows)
        /\ processed_count = Len(rows)
        /\ \A i \in 1..Len(out) :
               /\ out[i].record_id = rows[i].record_id
               /\ out[i].redacted_data_json = detect_and_redact_pii(rows[i].data_json).text
               /\ out[i].is_pii = detect_and_redact_pii(rows[i].data_json).is_pii
        /\ pii_found_count = Cardinality({ i \in 1..Len(out) : out[i].is_pii })

====
